---- MODULE Spec2Model ----
(***************************************************************************)
(* Model of 02_src/b_scraper.py: the Selenium scraper that walks a         *)
(* configured tree of levels (navigate_levels), extracts the leaf tables   *)
(* (extract_table_data, get_final_headers), retries stale clicks           *)
(* (click_on_element) and saves what was collected (main, save_data).      *)
(*                                                                         *)
(* Texts are sequences of tokens; a whitespace token stands for a run of   *)
(* blanks, so that str.strip() is modelled by what it removes.  The        *)
(* browser is the environment: every driver call draws its outcome         *)
(* ("ok", "stale", "timeout", a list length, a page) nondeterministically. *)
(***************************************************************************)
EXTENDS Integers, Sequences, FiniteSets, TLC

VARIABLES
    pc,               \* position of main(): "init", "route", "years", "nav", "except", "finally", "quit", "done"
    route,            \* ruta_seleccionada (a key of ROUTES), "none" before select_route
    yearIdx,          \* 1-based position of the for loop of main() in YEARS
    stack,            \* call stack of navigate_levels frames, root first
    context,          \* the dict shared by the frames: sequence of <<level, name>> in insertion order
    table_headers,    \* main()'s table_headers list, shared by all partitions
    todos_los_datos,  \* main()'s accumulator
    saved,            \* the calls of save_data so far: [name, datos, encabezados, written]
    failure,          \* the exception that reached main()'s except clause, "none" otherwise
    signal,           \* the exception raised during the last step, "none" when it raised none
    quits,            \* number of driver.quit() calls
    clicks,           \* number of click attempts completed by the driver (element.click())
    backs,            \* number of driver.back() calls
    selects,          \* number of dropdown selections performed
    faults,           \* number of failures the browser has injected so far
    produced,         \* history: every row a leaf extraction has produced, year first
    returned,         \* history: per completed partition, its key and the rows navigate_levels returned
    lastLeaf,         \* history: the last leaf extraction (ancestor names, table rows, rows emitted)
    depth,            \* history: item pages entered minus driver.back() calls, since the year was selected
    frameWait,        \* the last switch_to_frame: what it followed, whether it found the frame and its <body>
    blindLookup,      \* history: "none", or what the failed frame wait followed that the latest lookup relied on
    headerResults,    \* history: what each invocation of get_final_headers returned
    leafVisits,       \* history: leaf extractions started in the current partition
    cut,              \* history: what cut an iteration short in the current partition: "timeout", "skip", "stale"
    fn                \* input and output of the function under test in the function specifications

vars == <<pc, route, yearIdx, stack, context, table_headers, todos_los_datos, saved,
          failure, signal, quits, clicks, backs, selects, faults, produced, returned,
          lastLeaf, depth, frameWait, blindLookup, headerResults, leafVisits, cut, fn>>

-----------------------------------------------------------------------------
(* Bounds of the model *)

MaxRetries == 4
MaxAttemptOutcomes == 4
MaxTableRows == 2
MaxRowCells == 3
MaxHeaderCells == 3
MaxLowerCells == 3
MaxFaults == 2
MaxDepth == 5
MaxLiveFaults == 1

(* Program constant: the default of max_retries *)
DefaultRetries == 3

-----------------------------------------------------------------------------
(* Texts and str.strip() *)

Whitespace == {" "}

RECURSIVE LStrip(_)
LStrip(t) ==
    IF t = <<>> THEN <<>>
    ELSE IF Head(t) \in Whitespace THEN LStrip(Tail(t)) ELSE t

RECURSIVE RStrip(_)
RStrip(t) ==
    IF t = <<>> THEN <<>>
    ELSE IF t[Len(t)] \in Whitespace THEN RStrip(SubSeq(t, 1, Len(t) - 1)) ELSE t

StripKeepsBlanks(t) == t

Strip(t) == RStrip(LStrip(t))

SeqsUpTo(S, n) == UNION {[1..k -> S] : k \in 0..n}

-----------------------------------------------------------------------------
(* click_on_element: one attempt per level of the recursion.  outcomes[k] is *)
(* what the browser does on the k-th attempt: "ok", "stale_wait" (the stale  *)
(* signal raised while waiting for the element), "stale_click" (raised by    *)
(* element.click()) or "timeout".  The result tells how the call ended       *)
(* (raised = "none" or "Exception"), how many attempts were made, how many   *)
(* times the element was located by id, and whether a click was performed.   *)

AttemptOutcomes == {"ok", "stale_wait", "stale_click", "timeout"}

StaleOutcomes == {"stale_wait", "stale_click"}

OutcomeAt(outcomes, k) == IF k <= Len(outcomes) THEN outcomes[k] ELSE "ok"

RECURSIVE ClickRetryOffByOne(_, _)
ClickRetryOffByOne(outcomes, max_retries) ==
    IF max_retries < 0
    THEN [raised |-> "Exception", attempts |-> 0, locates |-> 0, clicked |-> FALSE]
    ELSE LET o == OutcomeAt(outcomes, 1) IN
         IF o \in StaleOutcomes
         THEN LET r == ClickRetryOffByOne(IF outcomes = <<>> THEN <<>> ELSE Tail(outcomes),
                                          max_retries - 1) IN
              [r EXCEPT !.attempts = @ + 1, !.locates = @ + 1]
         ELSE [raised |-> "none", attempts |-> 1, locates |-> 1, clicked |-> (o = "ok")]

RECURSIVE ClickOnElement(_, _)
ClickOnElement(outcomes, max_retries) ==
    IF max_retries <= 0
    THEN [raised |-> "Exception", attempts |-> 0, locates |-> 0, clicked |-> FALSE]
    ELSE LET o == OutcomeAt(outcomes, 1) IN
         IF o \in StaleOutcomes
         THEN LET r == ClickOnElement(IF outcomes = <<>> THEN <<>> ELSE Tail(outcomes),
                                      max_retries - 1) IN
              [r EXCEPT !.attempts = @ + 1, !.locates = @ + 1]
         ELSE [raised |-> "none", attempts |-> 1, locates |-> 1, clicked |-> (o = "ok")]

-----------------------------------------------------------------------------
(* select_dropdown_option: one attempt per level of the recursion, with the  *)
(* outcomes of click_on_element.  A stale signal makes the function call     *)
(* itself again with the same arguments: no count of the attempts is kept.   *)
(* A TimeoutException of the wait is not caught.                             *)

RECURSIVE SelectDropdownOption(_)
SelectDropdownOption(outcomes) ==
    LET o == OutcomeAt(outcomes, 1) IN
    IF o \in StaleOutcomes
    THEN LET r == SelectDropdownOption(Tail(outcomes)) IN
         [r EXCEPT !.attempts = @ + 1]
    ELSE [raised |-> IF o = "timeout" THEN "TimeoutException" ELSE "none",
          attempts |-> 1, selected |-> (o = "ok")]

-----------------------------------------------------------------------------
(* extract_table_data.  A table is a sequence of <tr> elements, each with    *)
(* an id (a sequence of characters) and the texts of its <td> cells.         *)

IsPrefix(p, s) == Len(p) <= Len(s) /\ SubSeq(s, 1, Len(p)) = p

TrPrefix == <<"t", "r">>

DataRows(filas_dom) == SelectSeq(filas_dom, LAMBDA f : IsPrefix(TrPrefix, f.id))

CellsFromSecond(fila) == [k \in 1..(Len(fila.cells) - 1) |-> Strip(fila.cells[k + 1])]

CellsFromFirst(fila) == [k \in 1..Len(fila.cells) |-> Strip(fila.cells[k])]

RowData(fila) == IF fila.cells = <<>> THEN <<>> ELSE CellsFromSecond(fila)

RECURSIVE CollectKeepEmpty(_)
CollectKeepEmpty(filas) ==
    IF filas = <<>> THEN <<>>
    ELSE <<RowData(Head(filas))>> \o CollectKeepEmpty(Tail(filas))

RECURSIVE CollectRows(_)
CollectRows(filas) ==
    IF filas = <<>> THEN <<>>
    ELSE LET datos == RowData(Head(filas)) IN
         (IF datos # <<>> THEN <<datos>> ELSE <<>>) \o CollectRows(Tail(filas))

ExtractTableData(filas_dom) == CollectRows(DataRows(filas_dom))

-----------------------------------------------------------------------------
(* get_final_headers.  A header cell has a text and a colspan attribute:     *)
(* [present |-> FALSE] when get_attribute returns None, else the string.     *)

NoColspan == [present |-> FALSE, value |-> ""]

Colspan(v) == [present |-> TRUE, value |-> v]

Truthy(attr) == attr.present /\ attr.value # ""

IsNumeral(v) == v \in {"0", "1", "2", "3", "4"}

IntOf(v) == CASE v = "0" -> 0 [] v = "1" -> 1 [] v = "2" -> 2 [] v = "3" -> 3 [] v = "4" -> 4

HeaderRaised == [raised |-> TRUE, encabezados |-> <<>>, idx_inferior |-> 0]

(* the inner loop "for _ in range(int(colspan))": k cells of the lower row from idx_inferior on *)
TakeLowerFromStart(fila_inferior, idx_inferior, k) ==
    [j \in 1..k |-> Strip(fila_inferior[j].text)]

TakeLower(fila_inferior, idx_inferior, k) ==
    [j \in 1..k |-> Strip(fila_inferior[idx_inferior + j].text)]

RECURSIVE HeaderLoop(_, _, _, _, _)
HeaderLoop(fila_superior, fila_inferior, i, idx_inferior, encabezados) ==
    IF i >= Len(fila_superior)
    THEN [raised |-> FALSE, encabezados |-> encabezados, idx_inferior |-> idx_inferior]
    ELSE LET celda == fila_superior[i + 1] IN
         IF i = 0 /\ Strip(celda.text) = <<>>
         THEN HeaderLoop(fila_superior, fila_inferior, i + 1, idx_inferior, encabezados)
         ELSE IF Truthy(celda.colspan)
              THEN IF ~IsNumeral(celda.colspan.value)
                   THEN HeaderRaised       \* int(colspan): ValueError
                   ELSE LET k == IntOf(celda.colspan.value) IN
                        IF idx_inferior + k > Len(fila_inferior)
                        THEN HeaderRaised  \* fila_inferior[idx_inferior]: IndexError
                        ELSE HeaderLoop(fila_superior, fila_inferior, i + 1,
                                        idx_inferior + k,
                                        encabezados \o TakeLower(fila_inferior, idx_inferior, k))
              ELSE HeaderLoop(fila_superior, fila_inferior, i + 1, idx_inferior,
                              encabezados \o <<Strip(celda.text)>>)

GetFinalHeaders(tabla) ==
    IF ~tabla.found THEN <<>>            \* find_element raised: except -> []
    ELSE LET r == HeaderLoop(tabla.fila_superior, tabla.fila_inferior, 0, 0, <<>>) IN
         IF r.raised THEN <<>> ELSE r.encabezados

-----------------------------------------------------------------------------
(* Configuration (a_config): YEARS, ROUTES, FILE_CONFIGS.  A level name is   *)
(* <<"level", n>> for "level_n"; "" and NoLevel stand for a key that is      *)
(* absent from a level's dict (level_config.get returns None).               *)

T(s) == <<s>>

YEARS == <<T("2021"), T("2022"), T("2023")>>

NoLevel == <<>>

Level(n) == <<"level", n>>

LevelConfig(button, list_xpath, name_xpath, next_level, table_id) ==
    [button |-> button, list_xpath |-> list_xpath, name_xpath |-> name_xpath,
     next_level |-> next_level, table_id |-> table_id]

ROUTES ==
    [r \in {"deep", "wide", "flat", "dangling", "cyclic"} |->
        CASE r = "deep" ->
             [levels |->
                (Level(1) :> LevelConfig("ctl_btn", "", "", Level(2), "")) @@
                (Level(2) :> LevelConfig("", "//list2", "./td[2]", Level(3), "")) @@
                (Level(3) :> LevelConfig("", "//list3", "./td[2]", Level(4), "")) @@
                (Level(4) :> LevelConfig("", "", "", NoLevel, "tblData"))]
          [] r = "wide" ->
             [levels |->
                (Level(5) :> LevelConfig("", "//list5", "./td[2]", Level(6), "")) @@
                (Level(6) :> LevelConfig("", "", "", NoLevel, "tblData"))]
          [] r = "flat" ->
             [levels |->
                (Level(7) :> LevelConfig("ctl_btn", "", "", NoLevel, "tblData"))]
          [] r = "dangling" ->
             [levels |->
                (Level(1) :> LevelConfig("", "//list1", "./td[2]", Level(9), ""))]
          [] r = "cyclic" ->
             [levels |->
                (Level(8) :> LevelConfig("", "//list8", "./td[2]", Level(8), ""))]]

FILE_CONFIGS ==
    [r \in DOMAIN ROUTES |->
        [ENCABEZADOS_BASE |-> <<T("ANIO"), T("NIVEL_2"), T("NIVEL_3")>>,
         ARCHIVO_SCRAPING |-> <<r, ".xlsx">>]]

(* min(route_config["levels"].keys(), key=lambda lvl: int(lvl.split("_")[1])) *)
LevelNumber(lvl) == lvl[2]

FirstLevel(route_config) ==
    CHOOSE l \in DOMAIN route_config.levels :
        \A m \in DOMAIN route_config.levels : LevelNumber(l) <= LevelNumber(m)

-----------------------------------------------------------------------------
(* The site the browser shows when nothing goes wrong: the items of every    *)
(* list (raw display names, blanks included) and the table of a leaf page.   *)

ItemNames ==
    (Level(1) :> << <<" ", "Lima">>, <<"Cusco", " ">> >>) @@
    (Level(2) :> << <<" ", "North", " ">>, <<"South">> >>) @@
    (Level(3) :> << <<"Plant7", " ">>, <<" ", "Plant8">> >>) @@
    (Level(5) :> << <<"Item0">>, <<"Item1">>, <<"Item2">>, <<"Item3">>, <<"Item4">> >>) @@
    (Level(8) :> << <<"Loop">> >>)

HeaderCell(text, colspan) == [text |-> text, colspan |-> colspan]

Tr(id, cells) == [id |-> id, cells |-> cells]

NominalPage ==
    [found |-> TRUE,
     fila_superior |-> <<HeaderCell(<<" ">>, NoColspan), HeaderCell(<<"Grupo">>, Colspan("2")),
                         HeaderCell(<<"Total", " ">>, NoColspan)>>,
     fila_inferior |-> <<HeaderCell(<<"A">>, NoColspan), HeaderCell(<<" ", "B">>, NoColspan)>>,
     filas |-> <<Tr(<<"h", "d", "r">>, <<<<"x">>, <<"y">>>>),
                 Tr(<<"t", "r", "0">>, <<<<" ">>, <<" ", "10">>, <<"20", " ">>, <<"30">>>>),
                 Tr(<<"t", "r", "1">>, <<<<" ">>>>),
                 Tr(<<"t", "r", "2">>, <<<<" ">>, <<"11">>, <<"21">>, <<"31">>>>)>>]

NoTablePage == [NominalPage EXCEPT !.found = FALSE]

SelectFaults == {<<"timeout">>, <<"stale_wait", "ok">>}

ClickOk == <<"ok">>

ClickFaults ==
    { <<"stale_click", "ok">>,
      <<"timeout">>,
      <<"stale_wait", "stale_click", "stale_wait">> }

-----------------------------------------------------------------------------
(* The context dict (insertion-ordered) *)

CtxKeys(ctx) == {ctx[k][1] : k \in 1..Len(ctx)}

CtxSetAppending(ctx, key, value) == Append(ctx, <<key, value>>)

CtxSet(ctx, key, value) ==
    IF key \in CtxKeys(ctx)
    THEN [k \in 1..Len(ctx) |-> IF ctx[k][1] = key THEN <<key, value>> ELSE ctx[k]]
    ELSE Append(ctx, <<key, value>>)

(* [context[level] for level in context.keys()] *)
CtxValues(ctx) == [k \in 1..Len(ctx) |-> ctx[k][2]]

-----------------------------------------------------------------------------
(* State of the run *)

NoFn == [name |-> "none"]

NoLeaf == [path |-> <<>>, table_data |-> <<>>, rows |-> <<>>, context |-> <<>>,
           levels |-> <<>>, indices |-> <<>>, activated |-> TRUE]

Frame(level) ==
    [level |-> level, pos |-> "enter", i |-> 0, num_elements |-> 0, live |-> 0,
     element_name |-> <<>>, extracted_data |-> <<>>,
     visited |-> <<>>, skipped |-> {},   \* history: indices whose name was read / that were skipped
     home |-> 0,          \* history: the browser's depth when the list was counted
     triggered |-> TRUE,  \* history: the level's button, if it has one, was clicked
     clicked |-> FALSE]   \* history: the item of the running iteration was clicked

Top == stack[Len(stack)]

Cfg(level) == ROUTES[route].levels[level]

Fault == faults < MaxFaults /\ faults' = faults + 1

NoFault == faults' = faults

B(b) == IF b THEN 1 ELSE 0

(* n failures injected by the browser during one step *)
Charge(n) == faults + n <= MaxFaults /\ faults' = faults + n

(* lines 102-123: every exception of the two waits is caught and printed, *)
(* so the caller goes on whether the frame was found or not               *)
SwitchToFrame(after, found) == [after |-> after, found |-> found]

NoFrameWait == [after |-> "none", found |-> FALSE]

(* an element lookup (a wait, find_element, find_elements) in the current frame *)
Lookup == blindLookup' = IF frameWait.found THEN "none" ELSE frameWait.after

InTryWithoutRecursion(f) == f.pos \in {"name", "click", "back"}

(* positions of a fan-out frame that lie inside the try of lines 301-329 *)
InTry(f) == f.pos \in {"name", "click", "child", "back"}

HandlerIdx(st) ==
    LET hs == {k \in 1..Len(st) : InTry(st[k])} IN
    IF hs = {} THEN 0 ELSE CHOOSE k \in hs : \A j \in hs : j <= k

(* a StaleElementReferenceException raised by the top frame: the innermost  *)
(* enclosing try catches it and continues its loop; main() catches it       *)
(* when no fan-out frame encloses the raise                                 *)
StalePropagates(st) ==
    [stack |-> <<>>, pc |-> "except", failure |-> "StaleElementReferenceException",
     signal |-> "StaleElementReferenceException"]

AfterStale(st) ==
    LET h == HandlerIdx(st) IN
    IF h = 0 THEN StalePropagates(st)
    ELSE [stack |-> [SubSeq(st, 1, h) EXCEPT ![h].i = @ + 1, ![h].pos = "loop"],
          pc |-> "nav", failure |-> failure, signal |-> "StaleElementReferenceException"]

(* any other exception unwinds every frame and reaches main()'s except *)
AfterFatal(kind) == [stack |-> <<>>, pc |-> "except", failure |-> kind, signal |-> kind]

Continue(st) == [stack |-> st, pc |-> "nav", failure |-> failure, signal |-> "none"]

Goes(res) ==
    stack' = res.stack /\ pc' = res.pc /\ failure' = res.failure /\ signal' = res.signal

SetTop(f) == [stack EXCEPT ![Len(stack)] = f]

MainIdle ==
    /\ route = "none" /\ yearIdx = 1 /\ stack = <<>> /\ context = <<>>
    /\ table_headers = <<>> /\ todos_los_datos = <<>> /\ saved = <<>>
    /\ failure = "none" /\ signal = "none" /\ quits = 0 /\ clicks = 0 /\ backs = 0 /\ selects = 0
    /\ faults = 0 /\ produced = <<>> /\ returned = <<>> /\ lastLeaf = NoLeaf
    /\ depth = 0 /\ frameWait = NoFrameWait /\ blindLookup = "none"
    /\ headerResults = <<>> /\ leafVisits = 0 /\ cut = {}

Init == pc = "init" /\ MainIdle /\ fn = NoFn

-----------------------------------------------------------------------------
(* main(), lines 437-445 *)

NavigateToUrl ==
    /\ pc = "init"
    /\ \/ \E found \in BOOLEAN :
            /\ Charge(B(~found))
            /\ frameWait' = SwitchToFrame("url", found)
            /\ pc' = "route" /\ failure' = failure /\ signal' = "none"
       \/ /\ Fault /\ pc' = "except"
          /\ failure' = "WebDriverException" /\ signal' = "WebDriverException"
          /\ frameWait' = frameWait
    /\ UNCHANGED <<route, yearIdx, stack, context, table_headers, todos_los_datos, saved,
                   quits, clicks, backs, selects, produced, returned, lastLeaf, fn,
                   depth, blindLookup, headerResults, leafVisits, cut>>

SelectRoute ==
    /\ pc = "route"
    /\ \E r \in DOMAIN ROUTES : route' = r
    /\ yearIdx' = 1
    /\ pc' = IF Len(YEARS) = 0 THEN "finally" ELSE "years"
    /\ signal' = "none"
    /\ UNCHANGED <<stack, context, table_headers, todos_los_datos, saved, failure,
                   quits, clicks, backs, selects, faults, produced, returned, lastLeaf, fn,
                   depth, frameWait, blindLookup, headerResults, leafVisits, cut>>

(* extract_data_by_year up to the call of navigate_levels, lines 367-383 *)
ExtractDataByYearStart ==
    /\ pc = "years"
    /\ Lookup
    /\ \E oracle \in {ClickOk} \cup SelectFaults : \E found \in BOOLEAN :
          LET r == SelectDropdownOption(oracle) IN
          /\ selects' = selects + B(r.selected)
          /\ IF r.raised # "none"
             THEN /\ found /\ Charge(B(oracle # ClickOk))
                  /\ Goes(AfterFatal(r.raised))
                  /\ UNCHANGED <<context, frameWait, leafVisits, depth, cut>>
             ELSE /\ Charge(B(oracle # ClickOk) + B(~found))
                  /\ frameWait' = SwitchToFrame("select", found)
                  /\ context' = <<>>
                  /\ leafVisits' = 0
                  /\ depth' = 0
                  /\ cut' = {}
                  /\ Goes(Continue(<<Frame(FirstLevel(ROUTES[route]))>>))
    /\ UNCHANGED <<route, yearIdx, table_headers, todos_los_datos, saved,
                   quits, clicks, backs, produced, returned, lastLeaf, fn,
                   headerResults>>

-----------------------------------------------------------------------------
(* navigate_levels *)

(* lines 254-271: the level's config and its trigger button *)
NavigateLevelsEnter ==
    /\ pc = "nav" /\ Top.pos = "enter"
    /\ IF Len(stack) > MaxDepth
       THEN /\ NoFault /\ Goes(AfterFatal("RecursionError")) /\ clicks' = clicks
            /\ UNCHANGED <<frameWait, blindLookup>>
       ELSE IF Top.level \notin DOMAIN ROUTES[route].levels
       THEN /\ NoFault /\ Goes(AfterFatal("KeyError")) /\ clicks' = clicks
            /\ UNCHANGED <<frameWait, blindLookup>>
       ELSE IF Cfg(Top.level).button # ""
            THEN \E oracle \in {ClickOk} \cup ClickFaults : \E found \in BOOLEAN :
                    LET r == ClickOnElement(oracle, DefaultRetries) IN
                    /\ Lookup
                    /\ clicks' = clicks + B(r.clicked)
                    /\ IF r.raised # "none"
                       THEN /\ found /\ Charge(B(oracle # ClickOk))
                            /\ frameWait' = frameWait
                            /\ Goes(AfterFatal(r.raised))
                       ELSE /\ Charge(B(oracle # ClickOk) + B(~found))
                            /\ frameWait' = SwitchToFrame("click", found)
                            /\ Goes(Continue(SetTop([Top EXCEPT !.pos = "body",
                                                                !.triggered = r.clicked])))
            ELSE /\ NoFault /\ clicks' = clicks
                 /\ UNCHANGED <<frameWait, blindLookup>>
                 /\ Goes(Continue(SetTop([Top EXCEPT !.pos = "body"])))
    /\ UNCHANGED <<route, yearIdx, context, table_headers, todos_los_datos, saved,
                   quits, backs, selects, produced, returned, lastLeaf, fn,
                   depth, headerResults, leafVisits, cut>>


(* lines 273-285: the count of the list, read once *)
ListCounted(f, n) ==
    [f EXCEPT !.pos = "loop", !.i = 0, !.num_elements = n, !.live = n, !.home = depth]

ListTimeoutRetried(f) == f

(* lines 282-285: the wait timed out: num_elements = 0 *)
ListTimedOut(f) == ListCounted(f, 0)

ListSnapshot ==
    /\ pc = "nav" /\ Top.pos = "body" /\ Cfg(Top.level).list_xpath # ""
    /\ Lookup
    /\ \/ /\ NoFault
          /\ stack' = SetTop(ListCounted(Top, Len(ItemNames[Top.level])))
          /\ signal' = "none" /\ cut' = cut
       \/ /\ Fault
          /\ stack' = SetTop(ListTimedOut(Top))
          /\ signal' = "TimeoutException" /\ cut' = cut \cup {"timeout"}
    /\ UNCHANGED <<pc, route, yearIdx, context, table_headers, todos_los_datos, saved, failure,
                   quits, clicks, backs, selects, produced, returned, lastLeaf, fn,
                   depth, frameWait, headerResults, leafVisits>>

(* lines 287-298: next index of range(num_elements), the list re-resolved *)
LoopStepNoLengthCheck(f, live) ==
    IF f.i >= f.num_elements THEN [f EXCEPT !.pos = "exit"]
    ELSE [f EXCEPT !.pos = "name", !.live = live]

LoopStep(f, live) ==
    IF f.i >= f.num_elements THEN [f EXCEPT !.pos = "exit"]
    ELSE IF f.i >= live THEN [f EXCEPT !.i = @ + 1, !.live = live, !.skipped = @ \cup {f.i}]
    ELSE [f EXCEPT !.pos = "name", !.live = live]

LoopHead ==
    /\ pc = "nav" /\ Top.pos = "loop"
    /\ IF Top.i < Top.num_elements THEN Lookup ELSE blindLookup' = blindLookup
    /\ \/ NoFault /\ stack' = SetTop(LoopStep(Top, Top.live))
       \/ /\ Top.i < Top.num_elements
          /\ Fault
          /\ \E shorter \in 0..(Top.live - 1) : stack' = SetTop(LoopStep(Top, shorter))
    /\ cut' = IF stack'[Len(stack)].i # Top.i THEN cut \cup {"skip"} ELSE cut
    /\ signal' = "none"
    /\ UNCHANGED <<pc, route, yearIdx, context, table_headers, todos_los_datos, saved, failure,
                   quits, clicks, backs, selects, produced, returned, lastLeaf, fn,
                   depth, frameWait, headerResults, leafVisits>>


(* lines 302-304: the item's name, recorded in the context *)
ReadName ==
    /\ pc = "nav" /\ Top.pos = "name"
    /\ Lookup
    /\ \/ /\ NoFault
          /\ LET element_name == Strip(ItemNames[Top.level][Top.i + 1]) IN
             /\ context' = CtxSet(context, Top.level, element_name)
             /\ Goes(Continue(SetTop([Top EXCEPT !.pos = "click",
                                                 !.element_name = element_name,
                                                 !.visited = Append(@, Top.i)])))
             /\ cut' = cut
       \/ /\ Fault
          /\ Goes(AfterStale(stack))
          /\ context' = context /\ cut' = cut \cup {"stale"}
    /\ UNCHANGED <<route, yearIdx, table_headers, todos_los_datos, saved,
                   quits, clicks, backs, selects, produced, returned, lastLeaf, fn,
                   depth, frameWait, headerResults, leafVisits>>


(* lines 308-317: the item is activated; the next level is entered *)
ClickItem ==
    /\ pc = "nav" /\ Top.pos = "click"
    /\ Lookup
    /\ \E oracle \in {ClickOk} \cup ClickFaults : \E found \in BOOLEAN :
          LET r == ClickOnElement(oracle, DefaultRetries)
              next_level == Cfg(Top.level).next_level
              f == [Top EXCEPT !.clicked = r.clicked] IN
          /\ clicks' = clicks + B(r.clicked)
          /\ depth' = depth + B(r.clicked)
          /\ IF r.raised # "none"
             THEN /\ found /\ Charge(B(oracle # ClickOk))
                  /\ frameWait' = frameWait
                  /\ Goes(AfterFatal(r.raised))
             ELSE /\ Charge(B(oracle # ClickOk) + B(~found))
                  /\ frameWait' = SwitchToFrame("click", found)
                  /\ IF next_level # NoLevel
                     THEN Goes(Continue(Append(SetTop([f EXCEPT !.pos = "child"]),
                                               Frame(next_level))))
                     ELSE Goes(Continue(SetTop([f EXCEPT !.pos = "back"])))
    /\ UNCHANGED <<route, yearIdx, context, table_headers, todos_los_datos, saved,
                   quits, backs, selects, produced, returned, lastLeaf, fn,
                   headerResults, leafVisits, cut>>


SameIndex(f) == [f EXCEPT !.pos = "loop"]

(* line 287: the for loop takes the next index of range(num_elements) *)
NextIndex(f) == [f EXCEPT !.pos = "loop", !.i = @ + 1]

(* lines 319-323: back to the list *)
GoBack ==
    /\ pc = "nav" /\ Top.pos = "back"
    /\ backs' = backs + 1
    /\ depth' = depth - 1
    /\ \/ \E found \in BOOLEAN :
            /\ Charge(B(~found))
            /\ frameWait' = SwitchToFrame("back", found)
            /\ Goes(Continue(SetTop(NextIndex(Top))))
            /\ cut' = cut
       \/ Fault /\ Goes(AfterStale(stack)) /\ frameWait' = frameWait /\ cut' = cut \cup {"stale"}
    /\ UNCHANGED <<route, yearIdx, context, table_headers, todos_los_datos, saved,
                   quits, clicks, selects, produced, returned, lastLeaf, fn,
                   blindLookup, headerResults, leafVisits>>


(* lines 332-340: a level without a list hands over to its next level *)
PassThrough ==
    /\ pc = "nav" /\ Top.pos = "body"
    /\ Cfg(Top.level).list_xpath = "" /\ Cfg(Top.level).next_level # NoLevel
    /\ stack' = Append(SetTop([Top EXCEPT !.pos = "pass"]), Frame(Cfg(Top.level).next_level))
    /\ signal' = "none"
    /\ UNCHANGED <<pc, route, yearIdx, context, table_headers, todos_los_datos, saved, failure,
                   quits, clicks, backs, selects, faults, produced, returned, lastLeaf, fn,
                   depth, frameWait, blindLookup, headerResults, leafVisits, cut>>

ExtendInFront(acc, rows) == rows \o acc

(* list.extend at lines 312, 336 and 453; list.append in a loop at 352 *)
Extend(acc, rows) == acc \o rows

(* line 351: context values first, then the cells of the row *)
FormatCellsFirst(ctx, row) == row \o CtxValues(ctx)

FormatRow(ctx, row) == CtxValues(ctx) \o row

FormatRows(ctx, table_data) == [k \in 1..Len(table_data) |-> FormatRow(ctx, table_data[k])]

WithFirstYear(year, filas) == [k \in 1..Len(filas) |-> <<YEARS[1]>> \o filas[k]]

WithYear(year, filas) == [k \in 1..Len(filas) |-> <<year>> \o filas[k]]

AncestorNames(st) ==
    LET fan == SelectSeq(st, LAMBDA f : f.pos = "child") IN
    [k \in 1..Len(fan) |-> fan[k].element_name]

(* the levels of the fan-out frames whose iteration is running *)
AncestorLevels(st) ==
    LET fan == SelectSeq(st, LAMBDA f : f.pos = "child") IN
    [k \in 1..Len(fan) |-> fan[k].level]

AncestorIndices(st) ==
    LET fan == SelectSeq(st, LAMBDA f : f.pos = "child") IN
    [k \in 1..Len(fan) |-> fan[k].i]

(* every click on the way down was performed *)
Activated(st) == \A k \in 1..Len(st) : st[k].triggered /\ (st[k].pos = "child" => st[k].clicked)

NeedsHeadersAtEveryLeaf(headers) == TRUE

(* line 343: if not table_headers *)
NeedsHeaders(headers) == headers = <<>>

(* lines 341-352: the leaf: headers while there are none, then the rows of the table *)
Leaf ==
    /\ pc = "nav" /\ Top.pos = "body"
    /\ Cfg(Top.level).list_xpath = "" /\ Cfg(Top.level).next_level = NoLevel
    /\ IF Cfg(Top.level).table_id = ""
       THEN /\ NoFault
            /\ Goes(Continue(SetTop([Top EXCEPT !.pos = "exit"])))
            /\ UNCHANGED <<table_headers, produced, lastLeaf, blindLookup, headerResults,
                           leafVisits, cut>>
       ELSE \E page \in {NominalPage, NoTablePage} : \E stale \in BOOLEAN :
            /\ IF page = NominalPage /\ ~stale THEN NoFault ELSE Fault
            /\ ~(page = NoTablePage /\ stale)
            /\ Lookup
            /\ leafVisits' = leafVisits + 1
            /\ IF NeedsHeaders(table_headers)
               THEN /\ table_headers' = table_headers \o GetFinalHeaders(page)
                    /\ headerResults' = Append(headerResults, GetFinalHeaders(page))
               ELSE UNCHANGED <<table_headers, headerResults>>
            /\ cut' = IF stale THEN cut \cup {"stale"} ELSE cut
            /\ IF stale
               THEN /\ Goes(AfterStale(stack))
                    /\ UNCHANGED <<produced, lastLeaf>>
               ELSE LET table_data == ExtractTableData(page.filas)
                        rows == FormatRows(context, table_data) IN
                    /\ Goes(Continue(SetTop([Top EXCEPT !.pos = "exit",
                                                        !.extracted_data = Extend(@, rows)])))
                    /\ produced' = produced \o
                          [k \in 1..Len(table_data) |->
                              <<YEARS[yearIdx]>> \o AncestorNames(stack) \o table_data[k]]
                    /\ lastLeaf' = [path |-> AncestorNames(stack),
                                    table_data |-> table_data, rows |-> rows,
                                    context |-> context, levels |-> AncestorLevels(stack),
                                    indices |-> AncestorIndices(stack),
                                    activated |-> Activated(stack)]
    /\ UNCHANGED <<route, yearIdx, context, todos_los_datos, saved,
                   quits, clicks, backs, selects, returned, fn,
                   depth, frameWait>>

(* lines 354-355 and 313-317 / 336-340: the rows go to the calling frame *)
NavigateLevelsReturn ==
    /\ pc = "nav" /\ Len(stack) >= 2 /\ Top.pos = "exit"
    /\ LET caller == stack[Len(stack) - 1] IN
       stack' = [SubSeq(stack, 1, Len(stack) - 1) EXCEPT ![Len(stack) - 1] =
                   [caller EXCEPT !.extracted_data = Extend(@, Top.extracted_data),
                                  !.pos = IF caller.pos = "child" THEN "back" ELSE "exit"]]
    /\ signal' = "none"
    /\ UNCHANGED <<pc, route, yearIdx, context, table_headers, todos_los_datos, saved, failure,
                   quits, clicks, backs, selects, faults, produced, returned, lastLeaf, fn,
                   depth, frameWait, blindLookup, headerResults, leafVisits, cut>>

(* lines 383-391 and 453: the year is put first; main() extends its list *)
ExtractDataByYearFinish ==
    /\ pc = "nav" /\ Len(stack) = 1 /\ Top.pos = "exit"
    /\ todos_los_datos' = Extend(todos_los_datos, WithYear(YEARS[yearIdx], Top.extracted_data))
    /\ returned' = Append(returned, [year |-> YEARS[yearIdx], rows |-> Top.extracted_data])
    /\ yearIdx' = yearIdx + 1
    /\ stack' = <<>>
    /\ pc' = IF yearIdx + 1 > Len(YEARS) THEN "finally" ELSE "years"
    /\ signal' = "none"
    /\ UNCHANGED <<route, context, table_headers, saved, failure,
                   quits, clicks, backs, selects, faults, produced, lastLeaf, fn,
                   depth, frameWait, blindLookup, headerResults, leafVisits, cut>>

-----------------------------------------------------------------------------
(* save_data and the except / finally clauses of main() *)

PartialName(archivo) == <<"parcial_">> \o archivo

SaveData(nombre_archivo, datos, encabezados, written) ==
    Append(saved, [nombre_archivo |-> nombre_archivo, datos |-> datos,
                   encabezados |-> encabezados, written |-> written])

EncabezadosCompletos == FILE_CONFIGS[route].ENCABEZADOS_BASE \o table_headers

(* lines 455-466 *)
MainExcept ==
    /\ pc = "except"
    /\ IF todos_los_datos # <<>>
       THEN \E written \in BOOLEAN :
              /\ IF written THEN NoFault ELSE Fault
              /\ saved' = SaveData(PartialName(FILE_CONFIGS[route].ARCHIVO_SCRAPING),
                                   todos_los_datos, EncabezadosCompletos, written)
       ELSE NoFault /\ saved' = saved
    /\ pc' = "finally"
    /\ signal' = "none"
    /\ UNCHANGED <<route, yearIdx, stack, context, table_headers, todos_los_datos, failure,
                   quits, clicks, backs, selects, produced, returned, lastLeaf, fn,
                   depth, frameWait, blindLookup, headerResults, leafVisits, cut>>

(* lines 468-477: the finally clause up to its save *)
MainFinally ==
    /\ pc = "finally"
    /\ IF todos_los_datos # <<>>
       THEN \E written \in BOOLEAN :
              /\ IF written THEN NoFault ELSE Fault
              /\ saved' = SaveData(FILE_CONFIGS[route].ARCHIVO_SCRAPING,
                                   todos_los_datos, EncabezadosCompletos, written)
       ELSE NoFault /\ saved' = saved
    /\ pc' = "quit"
    /\ signal' = "none"
    /\ UNCHANGED <<route, yearIdx, stack, context, table_headers, todos_los_datos, failure,
                   quits, clicks, backs, selects, produced, returned, lastLeaf, fn,
                   depth, frameWait, blindLookup, headerResults, leafVisits, cut>>

QuitDriverSkipped(n) == n

(* line 479: driver.quit() *)
QuitDriver(n) == n + 1

(* lines 479-480: the last statements of the finally clause *)
DriverQuit ==
    /\ pc = "quit"
    /\ quits' = QuitDriver(quits)
    /\ pc' = "done"
    /\ signal' = "none"
    /\ UNCHANGED <<route, yearIdx, stack, context, table_headers, todos_los_datos, saved,
                   failure, clicks, backs, selects, faults, produced, returned, lastLeaf, fn,
                   depth, frameWait, blindLookup, headerResults, leafVisits, cut>>

Next ==
    \/ NavigateToUrl
    \/ SelectRoute
    \/ ExtractDataByYearStart
    \/ NavigateLevelsEnter
    \/ ListSnapshot
    \/ LoopHead
    \/ ReadName
    \/ ClickItem
    \/ GoBack
    \/ PassThrough
    \/ Leaf
    \/ NavigateLevelsReturn
    \/ ExtractDataByYearFinish
    \/ MainExcept
    \/ MainFinally
    \/ DriverQuit

Spec == Init /\ [][Next]_vars

(* The runs in which the browser injects at most MaxLiveFaults failures.    *)
(* main() is one sequential thread and every driver call returns or raises *)
(* within its wait: whenever a step is possible, one is taken.              *)
NextLive == Next /\ faults' <= MaxLiveFaults

SpecLive == Init /\ [][NextLive]_vars /\ WF_vars(NextLive)

-----------------------------------------------------------------------------
(* The functions on their own: the input is drawn in the initial state and   *)
(* the one action applies the function to it.                                *)

FnCall(name, in) == [name |-> name, in |-> in, done |-> FALSE, out |-> <<>>]

FnIdle == pc = "fn" /\ MainIdle

ClickInputs ==
    {[outcomes |-> o, max_retries |-> n] :
        o \in [1..MaxAttemptOutcomes -> AttemptOutcomes], n \in 0..MaxRetries}

InitClick == FnIdle /\ fn \in {FnCall("click_on_element", in) : in \in ClickInputs}

CallClickOnElement ==
    /\ fn.name = "click_on_element" /\ ~fn.done
    /\ fn' = [fn EXCEPT !.done = TRUE,
                        !.out = ClickOnElement(fn.in.outcomes, fn.in.max_retries)]
    /\ UNCHANGED <<pc, route, yearIdx, stack, context, table_headers, todos_los_datos, saved,
                   failure, quits, clicks, backs, selects, faults, produced, returned, lastLeaf, signal,
                   depth, frameWait, blindLookup, headerResults, leafVisits, cut>>

SpecClick == InitClick /\ [][CallClickOnElement]_vars

SelectInputs == [1..MaxAttemptOutcomes -> AttemptOutcomes]

InitSelect == FnIdle /\ fn \in {FnCall("select_dropdown_option", in) : in \in SelectInputs}

CallSelectDropdownOption ==
    /\ fn.name = "select_dropdown_option" /\ ~fn.done
    /\ fn' = [fn EXCEPT !.done = TRUE, !.out = SelectDropdownOption(fn.in)]
    /\ UNCHANGED <<pc, route, yearIdx, stack, context, table_headers, todos_los_datos, saved,
                   failure, quits, clicks, backs, selects, faults, produced, returned, lastLeaf, signal,
                   depth, frameWait, blindLookup, headerResults, leafVisits, cut>>

SpecSelect == InitSelect /\ [][CallSelectDropdownOption]_vars

CellTexts == {<<" ">>, <<" ", "10", " ">>}

RowIds == {<<"t", "r", "0">>, <<"t", "h">>}

TableInputs ==
    SeqsUpTo({Tr(id, cells) : id \in RowIds, cells \in SeqsUpTo(CellTexts, MaxRowCells)},
             MaxTableRows)

InitTable == FnIdle /\ fn \in {FnCall("extract_table_data", in) : in \in TableInputs}

CallExtractTableData ==
    /\ fn.name = "extract_table_data" /\ ~fn.done
    /\ fn' = [fn EXCEPT !.done = TRUE, !.out = ExtractTableData(fn.in)]
    /\ UNCHANGED <<pc, route, yearIdx, stack, context, table_headers, todos_los_datos, saved,
                   failure, quits, clicks, backs, selects, faults, produced, returned, lastLeaf, signal,
                   depth, frameWait, blindLookup, headerResults, leafVisits, cut>>

SpecTable == InitTable /\ [][CallExtractTableData]_vars

UpperCells ==
    {HeaderCell(<<" ">>, NoColspan), HeaderCell(<<" ", "H">>, NoColspan),
     HeaderCell(<<"G1">>, Colspan("1")), HeaderCell(<<"G2">>, Colspan("2")),
     HeaderCell(<<"G3">>, Colspan("3")), HeaderCell(<<"Gx">>, Colspan("x"))}

LowerCells == {HeaderCell(<<"A">>, NoColspan), HeaderCell(<<"B", " ">>, NoColspan),
               HeaderCell(<<"C">>, NoColspan)}

HeaderInputs ==
    {[found |-> f, fila_superior |-> sup, fila_inferior |-> inf] :
        f \in BOOLEAN, sup \in SeqsUpTo(UpperCells, MaxHeaderCells),
        inf \in SeqsUpTo(LowerCells, MaxLowerCells)}

InitHeaders == FnIdle /\ fn \in {FnCall("get_final_headers", in) : in \in HeaderInputs}

CallGetFinalHeaders ==
    /\ fn.name = "get_final_headers" /\ ~fn.done
    /\ fn' = [fn EXCEPT !.done = TRUE, !.out = GetFinalHeaders(fn.in)]
    /\ UNCHANGED <<pc, route, yearIdx, stack, context, table_headers, todos_los_datos, saved,
                   failure, quits, clicks, backs, selects, faults, produced, returned, lastLeaf, signal,
                   depth, frameWait, blindLookup, headerResults, leafVisits, cut>>

SpecHeaders == InitHeaders /\ [][CallGetFinalHeaders]_vars

-----------------------------------------------------------------------------
StaleRun(outcomes, n) == \A k \in 1..n : OutcomeAt(outcomes, k) \in StaleOutcomes

(* C1: click_on_element(driver, id, max_retries = N) makes at most N         *)
(* attempts; when the stale signal is raised on N consecutive attempts the   *)
(* call ends by raising the exhausted-retry exception after exactly N        *)
(* attempts; when it is raised on N-1 attempts and the N-th succeeds, the    *)
(* call returns normally having clicked; every attempt locates the element   *)
(* by id again.                                                              *)

ClickRetryBound ==
    (fn.name = "click_on_element" /\ fn.done) =>
        LET N == fn.in.max_retries
            o == fn.in.outcomes
            r == fn.out IN
        /\ r.attempts <= N
        /\ r.locates = r.attempts
        /\ StaleRun(o, N) => (r.raised = "Exception" /\ r.attempts = N /\ ~r.clicked)
        /\ (N >= 1 /\ StaleRun(o, N - 1) /\ OutcomeAt(o, N) = "ok")
              => (r.raised = "none" /\ r.attempts = N /\ r.clicked)

ClickRetryWitness ==
    /\ fn.name = "click_on_element" /\ fn.done
    /\ fn.in.max_retries = DefaultRetries
    /\ StaleRun(fn.in.outcomes, DefaultRetries)
    /\ fn.out.raised = "Exception" /\ fn.out.attempts = DefaultRetries

-----------------------------------------------------------------------------
IsDataRow(f) == Len(f.id) >= 2 /\ f.id[1] = "t" /\ f.id[2] = "r"

(* C8: for a table whose data rows are the rows with an id starting with     *)
(* 'tr', extract_table_data returns, in document order, the cells of each    *)
(* data row without the first one; a data row with no cell left is omitted;  *)
(* N data rows of at least two cells yield exactly N rows of (cells - 1)     *)
(* fields.                                                                   *)

LeafRowExtraction ==
    (fn.name = "extract_table_data" /\ fn.done) =>
        LET data == SelectSeq(fn.in, IsDataRow)
            kept == SelectSeq(data, LAMBDA f : Len(f.cells) >= 2) IN
        /\ Len(fn.out) = Len(kept)
        /\ \A k \in 1..Len(kept) :
              /\ Len(fn.out[k]) = Len(kept[k].cells) - 1
              /\ \A c \in 1..Len(fn.out[k]) : fn.out[k][c] = Strip(kept[k].cells[c + 1])
        /\ (\A k \in 1..Len(data) : Len(data[k].cells) >= 2) => Len(fn.out) = Len(data)

LeafRowExtractionWitness ==
    /\ fn.name = "extract_table_data" /\ fn.done
    /\ Len(fn.in) = MaxTableRows
    /\ IsDataRow(fn.in[1]) /\ Len(fn.in[1].cells) = 1
    /\ IsDataRow(fn.in[2]) /\ Len(fn.in[2].cells) = MaxRowCells
    /\ fn.out = << [c \in 1..(MaxRowCells - 1) |-> Strip(fn.in[2].cells[c + 1])] >>

-----------------------------------------------------------------------------
(* get_final_headers walks the first header row from left to right: what     *)
(* each of its cells is to contribute.                                       *)

SpanOf(celda) == IF Truthy(celda.colspan) /\ IsNumeral(celda.colspan.value)
                 THEN IntOf(celda.colspan.value) ELSE 0

RECURSIVE SpansBefore(_, _)
SpansBefore(cells, j) == IF j <= 1 THEN 0 ELSE SpansBefore(cells, j - 1) + SpanOf(cells[j - 1])

(* the first row without its first cell when that cell's text is empty *)
WalkedCells(fila_superior) ==
    IF fila_superior # <<>> /\ Strip(fila_superior[1].text) = <<>>
    THEN Tail(fila_superior) ELSE fila_superior

AllNumeric(cells) ==
    \A j \in 1..Len(cells) : Truthy(cells[j].colspan) => IsNumeral(cells[j].colspan.value)

Min(a, b) == IF a <= b THEN a ELSE b

(* what cell j contributes: the next k cells of the second row not yet taken *)
(* (as many of them as the second row holds), or its own text                *)
Contribution(cells, fila_inferior, j) ==
    IF Truthy(cells[j].colspan)
    THEN LET from == SpansBefore(cells, j)
             upto == Min(from + SpanOf(cells[j]), Len(fila_inferior)) IN
         [c \in 1..(IF upto > from THEN upto - from ELSE 0) |-> Strip(fila_inferior[from + c].text)]
    ELSE <<Strip(cells[j].text)>>

RECURSIVE Flattened(_, _, _)
Flattened(cells, fila_inferior, j) ==
    IF j > Len(cells) THEN <<>>
    ELSE Contribution(cells, fila_inferior, j) \o Flattened(cells, fila_inferior, j + 1)

(* C9 as stated: a cell that declares column-span k contributes the next k   *)
(* cells of the second row not yet taken, a cell without a column-span its   *)
(* own text, an empty first cell nothing: each cell of the first row         *)
(* contributes, whatever the second row holds.                               *)
HeaderFlatteningAsClaimed ==
    (fn.name = "get_final_headers" /\ fn.done /\ fn.in.found
       /\ AllNumeric(WalkedCells(fn.in.fila_superior))) =>
        fn.out = Flattened(WalkedCells(fn.in.fila_superior), fn.in.fila_inferior, 1)

(* C9 amended: the cells contribute as claimed when the table is found, every *)
(* declared column-span is a number and the second row holds as many cells as *)
(* the spans take; in every other case no header name at all is returned.     *)
HeaderFlattening ==
    (fn.name = "get_final_headers" /\ fn.done) =>
        LET cells == WalkedCells(fn.in.fila_superior) IN
        IF /\ fn.in.found
           /\ AllNumeric(cells)
           /\ SpansBefore(cells, Len(cells) + 1) <= Len(fn.in.fila_inferior)
        THEN fn.out = Flattened(cells, fn.in.fila_inferior, 1)
        ELSE fn.out = <<>>

HeaderFlatteningWitness ==
    /\ fn.name = "get_final_headers" /\ fn.done /\ fn.in.found
    /\ fn.in.fila_superior = <<HeaderCell(<<" ">>, NoColspan), HeaderCell(<<"G3">>, Colspan("3"))>>
    /\ fn.in.fila_inferior = <<HeaderCell(<<"A">>, NoColspan), HeaderCell(<<"B", " ">>, NoColspan),
                               HeaderCell(<<"C">>, NoColspan)>>
    /\ fn.out = <<<<"A">>, <<"B">>, <<"C">>>>

-----------------------------------------------------------------------------
(* Claims about a run: shared definitions *)

Range(seq) == {seq[k] : k \in 1..Len(seq)}

Stale == "StaleElementReferenceException"

NominalFile == FILE_CONFIGS[route].ARCHIVO_SCRAPING

PartialFile == <<"parcial_">> \o FILE_CONFIGS[route].ARCHIVO_SCRAPING

(* the run was aborted by an exception raised inside the loop over YEARS *)
LoopAborted == pc \in {"finally", "done"} /\ failure # "none" /\ route # "none"

RECURSIVE RowsReturned(_)
RowsReturned(ret) ==
    IF ret = <<>> THEN <<>>
    ELSE [k \in 1..Len(Head(ret).rows) |-> <<Head(ret).year>> \o Head(ret).rows[k]]
         \o RowsReturned(Tail(ret))

PartialCalls == {k \in 1..Len(saved) : saved[k].nombre_archivo = PartialFile}

(* C2 as stated: whenever partition j fails after p1..p(j-1) completed, an     *)
(* artifact is saved under the partial designation with exactly the rows      *)
(* returned for p1..p(j-1).                                                   *)
PartialSaveAsClaimed ==
    LoopAborted => \E k \in PartialCalls : saved[k].datos = RowsReturned(returned)

(* C2 amended: when partition j fails after p1..p(j-1) completed and at least  *)
(* one row was returned for p1..p(j-1), main passes to save_data, under the   *)
(* partial designation, exactly the rows returned for p1..p(j-1), in order,   *)
(* each with its own partition key first, and no row of pj or of a later      *)
(* partition; when no row was returned nothing is saved under the partial     *)
(* designation.                                                               *)
PartialSave ==
    LoopAborted =>
        /\ Len(returned) = yearIdx - 1
        /\ \A k \in 1..Len(returned) : returned[k].year = YEARS[k]
        /\ IF RowsReturned(returned) # <<>>
           THEN /\ PartialCalls = {1}
                /\ saved[1].datos = RowsReturned(returned)
                /\ \A row \in Range(saved[1].datos) :
                      \E k \in 1..(yearIdx - 1) : row[1] = YEARS[k]
           ELSE PartialCalls = {}

PartialSaveWitness ==
    /\ pc = "finally" /\ failure # "none" /\ yearIdx = 3
    /\ Len(returned) = 2 /\ returned[1].rows # <<>> /\ returned[2].rows # <<>>
    /\ PartialCalls = {1}
    /\ saved[1].datos = RowsReturned(returned)

(* C3: when an unrecoverable failure aborts the run, every row a leaf         *)
(* extraction has produced during the run, the rows produced inside the       *)
(* partition in progress included, is among the rows passed to save_data.     *)
NoExtractedRowLost ==
    (pc \in {"finally", "done"} /\ failure # "none") =>
        \A row \in Range(produced) : \E k \in 1..Len(saved) : row \in Range(saved[k].datos)

(* C4: in one run the collected rows are saved under exactly one designation:  *)
(* the partial one when the loop was aborted, the nominal one when all        *)
(* partitions completed.                                                      *)
OneDesignationPerRun ==
    (pc = "done" /\ todos_los_datos # <<>>) =>
        /\ Len(saved) = 1
        /\ saved[1].datos = todos_los_datos
        /\ saved[1].nombre_archivo = IF failure = "none" THEN NominalFile ELSE PartialFile

-----------------------------------------------------------------------------
(* Fan-out of navigate_levels: the count is read once; the loop visits the    *)
(* 0..count-1 in increasing order, each at most once; at an index that is     *)
(* not less than the length of the re-resolved list the iteration is skipped: *)
(* no name read, no click, no recursion, no back navigation, and the loop     *)
(* goes on; the rows of the level come only from the indices visited.         *)

IsFanOut(f) ==
    /\ f.level \in DOMAIN ROUTES[route].levels
    /\ Cfg(f.level).list_xpath # ""
    /\ f.pos \notin {"enter", "body"}

(* the position of the level's name in a row: its rank among the fan-out frames *)
FanRank(d) == Cardinality({k \in 1..d : IsFanOut(stack[k])})

FanOutInv ==
    \A d \in 1..Len(stack) :
        LET f == stack[d] IN
        IsFanOut(f) =>
            /\ f.i <= f.num_elements
            /\ \A a \in 1..Len(f.visited) :
                  /\ f.visited[a] < f.num_elements
                  /\ f.visited[a] <= f.i
                  /\ f.visited[a] \notin f.skipped
                  /\ \A b \in 1..Len(f.visited) : a < b => f.visited[a] < f.visited[b]
            /\ \A row \in Range(f.extracted_data) :
                  \E v \in Range(f.visited) :
                      row[FanRank(d)] = Strip(ItemNames[f.level][v + 1])

(* a step of the loop head at index i that finds a re-resolved list of length <= i *)
SkipStep ==
    /\ pc = "nav" /\ stack # <<>> /\ Top.pos = "loop" /\ Top.i < Top.num_elements
    /\ pc' = "nav" /\ Len(stack') = Len(stack)
    /\ stack'[Len(stack)].live <= Top.i

FanOutSteps ==
    /\ SkipStep =>
          /\ stack' = SetTop([Top EXCEPT !.i = @ + 1, !.live = stack'[Len(stack)].live,
                                         !.skipped = @ \cup {Top.i}])
          /\ UNCHANGED <<context, clicks, backs, produced, table_headers, failure>>
    /\ \A d \in 1..Len(stack) :
          (d <= Len(stack') /\ stack[d].pos \notin {"enter", "body"}) =>
              /\ stack'[d].num_elements = stack[d].num_elements
              /\ stack'[d].i \in {stack[d].i, stack[d].i + 1}

(* C5: the count of a fan-out is read once and never changes; the loop visits *)
(* the indices below it in increasing order, each at most once; an index not  *)
(* less than the re-resolved length is skipped without name read, click,      *)
(* recursion or back navigation; the rows of the level come from the indices  *)
(* visited only.                                                              *)
FanOutBound == []FanOutInv /\ [][FanOutSteps]_vars

FanOutBoundWitness ==
    /\ route = "wide" /\ pc = "nav" /\ Len(stack) = 1
    /\ Top.pos = "exit" /\ Top.num_elements = 5
    /\ Top.skipped = {3, 4} /\ Top.visited = <<0, 1, 2>> /\ Top.live = 2
    /\ {row[1] : row \in Range(Top.extracted_data)} = {<<"Item0">>, <<"Item1">>, <<"Item2">>}

-----------------------------------------------------------------------------
(* C6: every row returned by extract_data_by_year is the partition key, then  *)
(* the selected item names of the ancestor branch levels from root to leaf,   *)
(* then the cells of the table row in column order.                           *)
RowFieldOrder ==
    /\ Len(lastLeaf.rows) = Len(lastLeaf.table_data)
    /\ \A k \in 1..Len(lastLeaf.rows) :
          lastLeaf.rows[k] = lastLeaf.path \o lastLeaf.table_data[k]
    /\ \A row \in Range(todos_los_datos) : row \in Range(produced)

RowFieldOrderWitness ==
    /\ lastLeaf.path = <<<<"North">>, <<"Plant7">>>>
    /\ <<<<"North">>, <<"Plant7">>, <<"10">>, <<"20">>, <<"30">>>> \in Range(lastLeaf.rows)
    /\ <<<<"2021">>, <<"North">>, <<"Plant7">>, <<"10">>, <<"20">>, <<"30">>>>
          \in Range(todos_los_datos)

-----------------------------------------------------------------------------
HasDanglingLevel(route_config) ==
    \E l \in DOMAIN route_config.levels :
        /\ route_config.levels[l].next_level # NoLevel
        /\ route_config.levels[l].next_level \notin DOMAIN route_config.levels

(* C7: a route in which some next_level names a level that does not exist is  *)
(* rejected before the traversal starts: no click, no back navigation and no  *)
(* row extraction happens for it.                                             *)
DanglingRouteRejected ==
    (route # "none" /\ HasDanglingLevel(ROUTES[route])) =>
        (clicks = 0 /\ backs = 0 /\ produced = <<>>)

-----------------------------------------------------------------------------
ProcessingIndex(f) == IsFanOut(f) /\ f.pos \notin {"loop", "exit"}

InnermostFanOut ==
    LET hs == {k \in 1..Len(stack) : ProcessingIndex(stack[k])} IN
    IF hs = {} THEN 0 ELSE CHOOSE k \in hs : \A j \in hs : j <= k

StaleScopedStep ==
    (pc = "nav" /\ signal' = Stale /\ InnermostFanOut > 0) =>
        LET h == InnermostFanOut IN
        /\ pc' = "nav" /\ failure' = failure
        /\ Len(stack') = h
        /\ \A k \in 1..(h - 1) : stack'[k] = stack[k]
        /\ stack'[h] = [stack[h] EXCEPT !.i = @ + 1, !.pos = "loop"]

-----------------------------------------------------------------------------
(* Navigation and frames *)

(* a fan-out frame at the start of an iteration, or about to return *)
AtListView(f) == IsFanOut(f) /\ f.pos \in {"loop", "exit"}

(* C11: at the start of every iteration of a fan-out level, and when the     *)
(* level returns, the browser is on that level's list view: every item       *)
(* activation that went forward has been matched by a back navigation, also  *)
(* when the index was abandoned by a stale signal raised after the click.    *)
NavigationBalanced ==
    pc = "nav" => \A k \in 1..Len(stack) : AtListView(stack[k]) => depth = stack[k].home

(* C12: every row tagged with an item name was extracted after the click on  *)
(* that item, and on the level's button, had been performed; a click that    *)
(* timed out stops the descent.                                              *)
RowsFollowActivation ==
    /\ lastLeaf.rows # <<>> => lastLeaf.activated
    /\ pc = "nav" => Activated(stack)

(* C13: after a click or a back navigation no element is looked up unless    *)
(* the frame wait of switch_to_frame succeeded.                              *)
FrameReadyBeforeLookup == blindLookup \notin {"click", "back"}

-----------------------------------------------------------------------------
(* C14: select_dropdown_option retries a stale element under the bounded     *)
(* policy of click_on_element: it makes at most DefaultRetries attempts, and *)
(* when the stale signal is raised on every one of them it ends by raising   *)
(* the exhausted-retry exception.                                            *)
SelectRetryBound ==
    (fn.name = "select_dropdown_option" /\ fn.done) =>
        /\ fn.out.attempts <= DefaultRetries
        /\ StaleRun(fn.in, DefaultRetries) => fn.out.raised = "Exception"

-----------------------------------------------------------------------------
(* A list wait that times out *)

ListTimeoutStep ==
    (pc = "nav" /\ stack # <<>> /\ Top.pos = "body" /\ signal' = "TimeoutException") =>
        /\ pc' = "nav" /\ failure' = failure
        /\ Len(stack') = Len(stack)
        /\ SubSeq(stack', 1, Len(stack) - 1) = SubSeq(stack, 1, Len(stack) - 1)
        /\ stack'[Len(stack)].level = Top.level
        /\ stack'[Len(stack)].pos = "loop"
        /\ stack'[Len(stack)].num_elements = 0
        /\ stack'[Len(stack)].extracted_data = <<>>
        /\ todos_los_datos' = todos_los_datos /\ saved' = saved

TimedOutFrame(f) == IsFanOut(f) /\ f.num_elements = 0

ZeroIterationsStep ==
    (pc = "nav" /\ stack # <<>> /\ TimedOutFrame(Top) /\ Top.pos = "loop") =>
        /\ stack' = SetTop([Top EXCEPT !.pos = "exit"])
        /\ pc' = "nav" /\ failure' = failure /\ signal' = "none"
        /\ clicks' = clicks /\ backs' = backs /\ context' = context

EmptyReturnStep ==
    (pc = "nav" /\ stack # <<>> /\ TimedOutFrame(Top) /\ Top.pos = "exit") =>
        /\ failure' = failure /\ signal' = "none"
        /\ IF Len(stack) >= 2
           THEN LET caller == stack[Len(stack) - 1] IN
                /\ pc' = "nav"
                /\ Len(stack') = Len(stack) - 1
                /\ stack'[Len(stack')].extracted_data = caller.extracted_data
                /\ stack'[Len(stack')].i = caller.i
                /\ stack'[Len(stack')].pos = IF caller.pos = "child" THEN "back" ELSE "exit"
           ELSE /\ pc' = IF yearIdx < Len(YEARS) THEN "years" ELSE "finally"
                /\ yearIdx' = yearIdx + 1
                /\ todos_los_datos' = todos_los_datos
                /\ returned' = Append(returned, [year |-> YEARS[yearIdx], rows |-> <<>>])

TimedOutInv ==
    pc = "nav" =>
        \A k \in 1..Len(stack) :
            TimedOutFrame(stack[k]) =>
                /\ stack[k].pos \in {"loop", "exit"}
                /\ stack[k].i = 0 /\ stack[k].visited = <<>> /\ stack[k].extracted_data = <<>>

(* C15: when the wait for a fan-out level's list times out, navigate_levels  *)
(* makes no iteration at that level and returns no row without raising; the  *)
(* calling frame goes on to its back navigation and next item, and the run   *)
(* to its next partition; the wait is not made again.                        *)
ListTimeoutIsZeroItems ==
    []TimedOutInv /\ [][ListTimeoutStep /\ ZeroIterationsStep /\ EmptyReturnStep]_vars

ListTimeoutIsZeroItemsWitness ==
    /\ pc = "nav" /\ route = "deep" /\ Len(stack) = 3
    /\ Top.level = Level(3) /\ Top.pos = "exit" /\ Top.num_elements = 0
    /\ stack[2].i = 1 /\ stack[2].pos = "child" /\ Len(stack[2].extracted_data) > 0

-----------------------------------------------------------------------------
(* Headers *)

(* C16 as stated: in a run get_final_headers is invoked at most once, also   *)
(* when that invocation fails or yields no header name.                      *)
HeadersResolvedOnce == Len(headerResults) <= 1

(* C16 amended: get_final_headers is invoked at a leaf visit only while the  *)
(* shared header sequence is empty: every invocation before the latest one   *)
(* yielded no name, the shared sequence is what the latest one yielded, and  *)
(* so it is never invoked, and the sequence never changes, once an           *)
(* invocation has yielded a name.                                            *)
HeadersResolvedWhileEmpty ==
    /\ \A k \in 1..(Len(headerResults) - 1) : headerResults[k] = <<>>
    /\ table_headers = IF headerResults = <<>> THEN <<>>
                       ELSE headerResults[Len(headerResults)]
    /\ (pc = "nav" /\ headerResults = <<>>) => leafVisits = 0

HeadersResolvedWhileEmptyWitness ==
    /\ Len(headerResults) = 2 /\ headerResults[1] = <<>>
    /\ table_headers = GetFinalHeaders(NominalPage) /\ table_headers # <<>>
    /\ pc = "nav" /\ leafVisits = 3 /\ Len(produced) = 4

-----------------------------------------------------------------------------
(* The context *)

(* the levels from a level on, following next_level, at most n of them *)
RECURSIVE ChainFrom(_, _, _)
ChainFrom(r, level, n) ==
    IF n = 0 \/ level \notin DOMAIN ROUTES[r].levels THEN <<>>
    ELSE <<level>> \o ChainFrom(r, ROUTES[r].levels[level].next_level, n - 1)

(* the levels with a list on the way from the first level to the leaf *)
BranchLevels(r) ==
    SelectSeq(ChainFrom(r, FirstLevel(ROUTES[r]), Cardinality(DOMAIN ROUTES[r].levels)),
              LAMBDA level : ROUTES[r].levels[level].list_xpath # "")

(* a step changes the context only by a frame writing the key of its own level *)
ContextWriteStep ==
    context' # context =>
        \/ pc = "years" /\ context' = <<>>
        \/ /\ pc = "nav" /\ stack # <<>>
           /\ Len(context') >= Len(context)
           /\ \A k \in 1..Len(context') :
                 \/ k <= Len(context) /\ context'[k] = context[k]
                 \/ /\ context'[k][1] = Top.level
                    /\ k <= Len(context) => context[k][1] = Top.level

(* at a leaf extraction: one entry per branch level of the path, in path order, *)
(* each the name of the item at the index its level is processing              *)
LeafContext ==
    lastLeaf # NoLeaf =>
        /\ lastLeaf.levels = BranchLevels(route)
        /\ lastLeaf.context =
              [k \in 1..Len(lastLeaf.levels) |->
                  <<lastLeaf.levels[k],
                    Strip(ItemNames[lastLeaf.levels[k]][lastLeaf.indices[k] + 1])>>]

(* C17: a frame writes the context only at the key of its own level and      *)
(* leaves every other key as it is; at every leaf extraction the context     *)
(* holds exactly one entry per branch level of the path, each the name read  *)
(* in the running iteration of that level.                                   *)
ContextIsolation == []LeafContext /\ [][ContextWriteStep]_vars

ContextIsolationWitness ==
    /\ pc = "nav" /\ route = "deep" /\ yearIdx = 2 /\ Top.pos = "exit"
    /\ lastLeaf.indices = <<1, 0>>
    /\ lastLeaf.context = << <<Level(2), <<"South">> >>, <<Level(3), <<"Plant7">> >> >>
    /\ stack[3].visited = <<0>> /\ stack[2].visited = <<1>>

-----------------------------------------------------------------------------
(* Order of the rows *)

RECURSIVE LexLess(_, _)
LexLess(a, b) ==
    IF a = <<>> THEN b # <<>>
    ELSE IF b = <<>> THEN FALSE
    ELSE Head(a) < Head(b) \/ (Head(a) = Head(b) /\ LexLess(Tail(a), Tail(b)))

YearIndex(year) == CHOOSE k \in 1..Len(YEARS) : YEARS[k] = year

NameIndex(level, name) ==
    CHOOSE k \in 1..Len(ItemNames[level]) : Strip(ItemNames[level][k]) = name

NominalTableData == ExtractTableData(NominalPage.filas)

DocIndex(cells) == CHOOSE k \in 1..Len(NominalTableData) : NominalTableData[k] = cells

(* where a row of a navigate_levels frame comes from: the index of its item *)
(* at every branch level, then its position in the table                    *)
NavKey(row) ==
    LET levels == BranchLevels(route) IN
    [k \in 1..Len(levels) |-> NameIndex(levels[k], row[k])]
    \o <<DocIndex(SubSeq(row, Len(levels) + 1, Len(row)))>>

RunKey(row) == <<YearIndex(row[1])>> \o NavKey(Tail(row))

(* strictly increasing keys; the order is transitive, so neighbours suffice *)
NavOrdered(rows) ==
    \A a \in 1..(Len(rows) - 1) : LexLess(NavKey(rows[a]), NavKey(rows[a + 1]))

RunOrdered(rows) ==
    \A a \in 1..(Len(rows) - 1) : LexLess(RunKey(rows[a]), RunKey(rows[a + 1]))

RowsInOrder ==
    /\ RunOrdered(todos_los_datos)
    /\ todos_los_datos = RowsReturned(returned)
    /\ \A k \in 1..Len(returned) : returned[k].year = YEARS[k]
    /\ \A k \in 1..Len(stack) : NavOrdered(stack[k].extracted_data)
    /\ \A k \in 1..Len(saved) : RunOrdered(saved[k].datos)

(* a step only appends: to main's accumulator, to the accumulator of every  *)
(* frame that is still running, to the calls of save_data made so far       *)
AppendOnlyStep ==
    /\ IsPrefix(todos_los_datos, todos_los_datos')
    /\ IsPrefix(saved, saved')
    /\ \A k \in 1..Len(stack') :
          k <= Len(stack) => IsPrefix(stack[k].extracted_data, stack'[k].extracted_data)

(* C18: the accumulated rows are the rows of the partitions in partition     *)
(* order; within a partition they are in fan-out index order at every branch *)
(* level and in document order within a table; a step never reorders,        *)
(* removes or rewrites a row of an accumulator, it only appends.             *)
OutputOrdering == []RowsInOrder /\ [][AppendOnlyStep]_vars

OutputOrderingWitness ==
    /\ pc = "done" /\ route = "deep" /\ failure = "none"
    /\ Len(todos_los_datos) = 24 /\ Len(saved) = 1 /\ saved[1].datos = todos_los_datos
    /\ RunKey(todos_los_datos[1]) = <<1, 1, 1, 1>>
    /\ RunKey(todos_los_datos[24]) = <<3, 2, 2, 2>>

-----------------------------------------------------------------------------
(* Termination of the traversal *)

RECURSIVE Product(_)
Product(ns) == IF ns = <<>> THEN 1 ELSE Head(ns) * Product(Tail(ns))

(* the product of the list counts of the branch levels of a route *)
LeafProduct(r) ==
    LET levels == BranchLevels(r) IN
    Product([k \in 1..Len(levels) |-> Len(ItemNames[levels[k]])])

(* the next_level references, followed from the first level, come back to a *)
(* level already entered                                                    *)
IsCyclic(r) ==
    LET n == Cardinality(DOMAIN ROUTES[r].levels)
        chain == ChainFrom(r, FirstLevel(ROUTES[r]), n) IN
    Len(chain) = n /\ ROUTES[r].levels[chain[n]].next_level \in DOMAIN ROUTES[r].levels

(* the call of navigate_levels made by extract_data_by_year is about to return *)
RootReturns == pc = "nav" /\ Len(stack) = 1 /\ Top.pos = "exit"

LeafBound == (route # "none" /\ ~IsCyclic(route)) => leafVisits <= LeafProduct(route)

(* C19 as stated (its safety part): at most the product of the counts leaf   *)
(* extractions per partition on an acyclic route; on a cyclic route          *)
(* navigate_levels returns only after a list wait timed out.                 *)
TraversalBoundsAsClaimed ==
    /\ LeafBound
    /\ (route # "none" /\ IsCyclic(route) /\ RootReturns) => "timeout" \in cut

TraversalBounds ==
    /\ LeafBound
    /\ (route # "none" /\ IsCyclic(route) /\ RootReturns) => cut # {}

(* A rank of the states that every step lowers in the lexicographic order:  *)
(* the phase of main(), the years left, then for each frame from the root   *)
(* down its stage, the indices its loop has left and its position.          *)
PhaseRank ==
    CASE pc = "init" -> 6 [] pc = "route" -> 5 [] pc \in {"years", "nav"} -> 4
      [] pc = "except" -> 3 [] pc = "finally" -> 2 [] pc = "quit" -> 1 [] OTHER -> 0

PosRank(pos) ==
    CASE pos = "loop" -> 5 [] pos = "name" -> 4 [] pos = "click" -> 3
      [] pos = "child" -> 2 [] pos \in {"back", "pass"} -> 1 [] OTHER -> 0

FrameRank(f) ==
    IF f.pos = "enter" THEN <<2, 0, 0>>
    ELSE IF f.pos = "body" THEN <<1, 0, 0>>
    ELSE <<0, f.num_elements - f.i, PosRank(f.pos)>>

RECURSIVE FrameRanks(_)
FrameRanks(st) == IF st = <<>> THEN <<>> ELSE FrameRank(Head(st)) \o FrameRanks(Tail(st))

RunRank ==
    <<PhaseRank, Len(YEARS) + 1 - yearIdx, IF pc = "years" THEN 1 ELSE 0>> \o FrameRanks(stack)

RankInv ==
    /\ yearIdx <= Len(YEARS) + 1
    /\ Len(stack) <= MaxDepth + 1
    /\ \A k \in 1..Len(stack) : stack[k].i <= stack[k].num_elements

RankDecreases == LexLess(RunRank', RunRank)

(* while navigate_levels runs, the innermost frame is at a position that has *)
(* a step (it is never one that waits for a call to return)                  *)
NoStall ==
    pc = "nav" =>
        /\ stack # <<>>
        /\ Top.pos \in {"enter", "body", "loop", "name", "click", "back", "exit"}
        /\ \A k \in 1..(Len(stack) - 1) : stack[k].pos \in {"child", "pass"}

(* C19 amended: on an acyclic route navigate_levels terminates (returns or   *)
(* raises: every step lowers a rank that is bounded below, and a step is     *)
(* possible until it ends) after at most the product of the list counts leaf *)
(* extractions per partition; on a cyclic route it returns only if a list    *)
(* wait timed out, an index was skipped because the list had shrunk, or an   *)
(* index was abandoned on a stale signal; otherwise the recursion goes on    *)
(* until the recursion limit raises.                                         *)
TraversalTermination ==
    [](TraversalBounds /\ RankInv /\ NoStall) /\ [][RankDecreases]_vars

TraversalTerminationWitness ==
    /\ route = "deep" /\ RootReturns /\ yearIdx = 2
    /\ leafVisits = LeafProduct("deep") /\ leafVisits = 4 /\ cut = {}

-----------------------------------------------------------------------------
(* The session *)

QuitInv == quits \in {0, 1} /\ (quits = 1 <=> pc = "done")

(* driver.quit() is called by a step that saves nothing, and nothing is saved after it *)
QuitStep ==
    /\ quits' # quits => (quits' = quits + 1 /\ saved' = saved)
    /\ quits >= 1 => (saved' = saved /\ quits' = quits)

====
